---- MODULE Spec2Model ----
(***************************************************************************)
(* Model of src/stock_server.py: the StockHandler request handlers do_GET  *)
(* and do_OPTIONS, served one request at a time by socketserver.TCPServer. *)
(*                                                                         *)
(* Conventions.                                                            *)
(*  - A str is a sequence of one-character strings.                         *)
(*  - A JSON value is a tagged record: Absent (the key is not in the dict), *)
(*    Null (None), Num(n), Str(s), a "list" or an "obj".                    *)
(*  - Prices are fixed-point integers in thousandths; volumes are counts.   *)
(*  - An expression that may raise yields Ok(v) or Err(msg); msg models     *)
(*    str(e) as a sequence of text chunks (their concatenation).            *)
(***************************************************************************)
EXTENDS Integers, Sequences, FiniteSets

VARIABLES pc, method, path, upstream, conn, sent, body, fetches, raised

vars == <<pc, method, path, upstream, conn, sent, body, fetches, raised>>

(***************************************************************************)
(* Bounds of the model.                                                    *)
(***************************************************************************)
MaxSymLen == 2
MaxSamples == 2

(***************************************************************************)
(* JSON values.                                                            *)
(***************************************************************************)
Absent == [tag |-> "absent"]
Null == [tag |-> "null"]
Num(n) == [tag |-> "num", num |-> n]
Str(s) == [tag |-> "str", str |-> s]

Ok(v) == [ok |-> TRUE, val |-> v]
Err(m) == [ok |-> FALSE, error |-> m]

(* d[k]: KeyError when the key is absent; str(KeyError(k)) is repr(k). *)
GetItem(d, k) == IF d[k] = Absent THEN Err(<<"'", k, "'">>) ELSE Ok(d[k])

(* d.get(k, default) *)
Get(d, k, default) == IF d[k] = Absent THEN default ELSE d[k]

(* bool(v) of a JSON scalar: None and 0 are falsy. *)
Truthy(v) == v.tag = "num" /\ v.num # 0

(***************************************************************************)
(* Strings: startswith, split, upper.                                      *)
(***************************************************************************)
StockPrefix == <<"/", "s", "t", "o", "c", "k", "/">>

(* The index of the first occurrence of sep in s, 0 if there is none. *)
Find(s, sep) ==
    LET hits == {i \in 1..(Len(s) - Len(sep) + 1) : SubSeq(s, i, i + Len(sep) - 1) = sep}
    IN IF hits = {} THEN 0 ELSE CHOOSE i \in hits : \A j \in hits : i <= j

(* Faulty variant: the prefix is searched for anywhere in the path. *)
StartsWithAnywhere(s, p) == Find(s, p) # 0

(* line 14: self.path.startswith('/stock/') *)
StartsWith(s, p) == Len(s) >= Len(p) /\ SubSeq(s, 1, Len(p)) = p

RECURSIVE Split(_, _)
Split(s, sep) ==
    LET i == Find(s, sep)
    IN IF i = 0 THEN <<s>>
       ELSE <<SubSeq(s, 1, i - 1)>> \o Split(SubSeq(s, i + Len(sep), Len(s)), sep)

UpperChar(c) ==
    CASE c = "a" -> "A" [] c = "b" -> "B" [] c = "c" -> "C" [] c = "k" -> "K"
      [] c = "o" -> "O" [] c = "s" -> "S" [] c = "t" -> "T" [] c = "x" -> "X"
      [] OTHER -> c

Upper(s) == [i \in 1..Len(s) |-> UpperChar(s[i])]

(* line 16: self.path.split('/stock/')[1].upper() *)
ExtractSymbol(p) == Upper(Split(p, StockPrefix)[2])

(***************************************************************************)
(* round(x, 2) on thousandths: to the nearest multiple of 10, ties to the  *)
(* even hundredth (Python's round).                                        *)
(***************************************************************************)
RoundHalfEven(n, d) ==
    LET q == n \div d
        r == n % d
    IN IF 2 * r < d THEN q
       ELSE IF 2 * r > d THEN q + 1
       ELSE IF q % 2 = 0 THEN q ELSE q + 1

Round2(v) ==
    IF v.tag = "num" THEN Ok(10 * RoundHalfEven(v.num, 10))
    ELSE Err(<<"type NoneType doesn't define __round__ method">>)

(* a - b *)
Minus(a, b) ==
    IF a.tag = "num" /\ b.tag = "num" THEN Ok(Num(a.num - b.num))
    ELSE Err(<<"unsupported operand type(s) for -">>)

(* Faulty variant: a zero previous close is guarded and yields 0 percent. *)
PercentZeroGuarded(chg, prev) ==
    IF prev.num = 0 THEN Ok([n |-> 0, d |-> 1])
    ELSE Ok([n |-> (IF prev.num > 0 THEN 1 ELSE -1) * chg.num * 10000,
             d |-> IF prev.num > 0 THEN prev.num ELSE -prev.num])

(* line 58: (change / previous_close) * 100, in thousandths of a percent, as an      *)
(* exact fraction num/den that round(.., 2) then rounds.                   *)
Percent(chg, prev) ==
    IF prev.num = 0 THEN Err(<<"division by zero">>)
    ELSE Ok([n |-> (IF prev.num > 0 THEN 1 ELSE -1) * chg.num * 10000,
             d |-> IF prev.num > 0 THEN prev.num ELSE -prev.num])

RoundPercent(f) == 10 * RoundHalfEven(f.n, f.d)

(***************************************************************************)
(* Quote normalization: lines 37-72 of do_GET.                             *)
(***************************************************************************)
Min(a, b) == IF a < b THEN a ELSE b

(* line 37: 'chart' in data and 'result' in data['chart'] and              *)
(* data['chart']['result'].  "x in None" raises TypeError.                 *)
HasResult(data) ==
    IF data.chart = Absent THEN Ok(FALSE)
    ELSE IF data.chart = Null
         THEN Err(<<"argument of type 'NoneType' is not iterable">>)
    ELSE IF data.chart.result = Absent THEN Ok(FALSE)
    ELSE IF data.chart.result = Null THEN Ok(FALSE)
    ELSE Ok(Len(data.chart.result.items) > 0)

(* Faulty variant: the valid samples newest first, so that [-1] is the oldest. *)
valid_data_reversed(timestamps, closes, volumes) ==
    LET n == Min(Len(timestamps), Min(Len(closes), Len(volumes)))
        zipped == [i \in 1..n |-> <<timestamps[n + 1 - i], closes[n + 1 - i], volumes[n + 1 - i]>>]
    IN SelectSeq(zipped, LAMBDA s : s[2] # Null)

(* line 48: [(t, c, v) for t, c, v in zip(timestamps, closes, volumes)      *)
(*           if c is not None]                                             *)
valid_data(timestamps, closes, volumes) ==
    LET n == Min(Len(timestamps), Min(Len(closes), Len(volumes)))
        zipped == [i \in 1..n |-> <<timestamps[i], closes[i], volumes[i]>>]
    IN SelectSeq(zipped, LAMBDA s : s[2] # Null)

(* line 65: round(meta.get('regularMarketOpen', last_close), 2) *)
OpenField(meta, last_close) == Round2(Get(meta, "regularMarketOpen", last_close))

(* line 69: last_volume if last_volume else meta.get('regularMarketVolume', 0) *)
VolumeField(meta, last_volume) ==
    IF Truthy(last_volume) THEN last_volume
    ELSE Get(meta, "regularMarketVolume", Num(0))

(* line 71: meta.get('marketState', 'REGULAR') *)
MarketStateField(meta) == Get(meta, "marketState", Str("REGULAR"))

(* line 70: datetime.now().isoformat(), the response-generation time. *)
NowIso == Str("datetime.now().isoformat()")

(* Faulty variant: the operands of the difference swapped. *)
ChangeSwapped(last_close, previous_close) == Minus(previous_close, last_close)

(* line 57: change = last_close - previous_close *)
Change(last_close, previous_close) == Minus(last_close, previous_close)

(* lines 60-72: the stock_data dict, its values evaluated in order. *)
stock_data(symbol, meta, last_close, last_volume, previous_close, change, change_percent) ==
    LET price == Round2(last_close)
        chg == Round2(change)
        open == OpenField(meta, last_close)
        hi == GetItem(meta, "regularMarketDayHigh")
        high == IF hi.ok THEN Round2(hi.val) ELSE hi
        lo == GetItem(meta, "regularMarketDayLow")
        low == IF lo.ok THEN Round2(lo.val) ELSE lo
        prev == Round2(previous_close)
    IN IF ~price.ok THEN price
       ELSE IF ~chg.ok THEN chg
       ELSE IF ~open.ok THEN open
       ELSE IF ~high.ok THEN high
       ELSE IF ~low.ok THEN low
       ELSE IF ~prev.ok THEN prev
       ELSE Ok([symbol |-> symbol,
                price |-> price.val,
                change |-> chg.val,
                changePercent |-> RoundPercent(change_percent),
                open |-> open.val,
                high |-> high.val,
                low |-> low.val,
                previousClose |-> prev.val,
                volume |-> VolumeField(meta, last_volume),
                timestamp |-> NowIso,
                marketState |-> MarketStateField(meta)])

(* lines 37-80: the decoded payload to stock_data, or the exception raised. *)
Normalize(symbol, data) ==
    LET chk == HasResult(data)
    IN IF ~chk.ok THEN chk
       ELSE IF ~chk.val THEN Err(<<"Invalid data format">>)
       ELSE
       LET result == data.chart.result.items[1]
           meta == result.meta
           quote == result.indicators.quote[1]
           ts == GetItem(result, "timestamp")
       IN IF ~ts.ok THEN ts
          ELSE
          LET valid == valid_data(ts.val.items, quote.close, quote.volume)
              lc == IF Len(valid) > 0 THEN Ok(valid[Len(valid)][2])
                    ELSE GetItem(meta, "regularMarketPrice")
          IN IF ~lc.ok THEN lc
             ELSE
             LET last_close == lc.val
                 last_volume == IF Len(valid) > 0 THEN valid[Len(valid)][3]
                                ELSE Get(meta, "regularMarketVolume", Num(0))
                 pcl == GetItem(meta, "chartPreviousClose")
             IN IF ~pcl.ok THEN pcl
                ELSE
                LET previous_close == pcl.val
                    change == Change(last_close, previous_close)
                IN IF ~change.ok THEN change
                   ELSE
                   LET change_percent == Percent(change.val, previous_close)
                   IN IF ~change_percent.ok THEN change_percent
                      ELSE stock_data(symbol, meta, last_close, last_volume,
                                      previous_close, change.val, change_percent.val)

(***************************************************************************)
(* Responses.  sent holds one record per send_response call, with the      *)
(* headers added by send_header and whether end_headers completed; body    *)
(* holds the payloads wfile.write delivered.                               *)
(***************************************************************************)
(* lines 75-76 and 89-90 *)
JsonHeaders ==
    << <<"Content-type", "application/json">>, <<"Access-Control-Allow-Origin", "*">> >>

(* Faulty variant: the pre-flight answer without Access-Control-Allow-Headers. *)
OptionsHeadersShort ==
    << <<"Access-Control-Allow-Origin", "*">>,
       <<"Access-Control-Allow-Methods", "GET, OPTIONS">> >>

(* lines 99-101 *)
OptionsHeaders ==
    << <<"Access-Control-Allow-Origin", "*">>,
       <<"Access-Control-Allow-Methods", "GET, OPTIONS">>,
       <<"Access-Control-Allow-Headers", "Content-Type">> >>

ResponseHead(status, headers, ended) == [status |-> status, headers |-> headers, ended |-> ended]

(* lines 83-87 *)
error_data(symbol, msg) ==
    [error |-> msg, symbol |-> symbol, message |-> <<"Failed to fetch data for ">> \o symbol]

(* lines 82-92: the except block, entered with the heads already sent and  *)
(* the connection in state st.  An exception raised here leaves do_GET.    *)
ErrorPath(sentSoFar, symbol, msg, st) ==
    IF st = "broken"
    THEN [sent |-> Append(sentSoFar, ResponseHead(500, JsonHeaders, FALSE)),
          body |-> <<>>, raised |-> TRUE]
    ELSE IF st = "ok"
    THEN [sent |-> Append(sentSoFar, ResponseHead(500, JsonHeaders, TRUE)),
          body |-> <<error_data(symbol, msg)>>, raised |-> FALSE]
    ELSE [sent |-> Append(sentSoFar, ResponseHead(500, JsonHeaders, TRUE)),
          body |-> <<>>, raised |-> TRUE]

(* lines 93-95 *)
NotFound == [sent |-> <<ResponseHead(404, <<>>, TRUE)>>, body |-> <<>>, raised |-> FALSE]

(* lines 97-102 *)
Preflight == [sent |-> <<ResponseHead(200, OptionsHeaders, TRUE)>>, body |-> <<>>, raised |-> FALSE]

(* lines 34-35: urlopen, read, decode, json.loads *)
Fetch(u) ==
    IF u.kind = "urlerror" THEN Err(<<"<urlopen error>">>)
    ELSE IF u.kind = "decodeerror" THEN Err(<<"Expecting value">>)
    ELSE Ok(u.data)

(* The connection after a body write raised. *)
AfterFailure(c) == IF c = "fail_once" THEN "ok" ELSE "broken"

(* lines 16-92: the quote route. *)
StockRoute(p, u, c) ==
    LET symbol == ExtractSymbol(p)
        data == Fetch(u)
        outcome == IF data.ok THEN Normalize(symbol, data.val) ELSE data
    IN IF outcome.ok
       THEN IF c = "ok"
            THEN [sent |-> <<ResponseHead(200, JsonHeaders, TRUE)>>,
                  body |-> <<outcome.val>>, raised |-> FALSE]
            ELSE ErrorPath(<<ResponseHead(200, JsonHeaders, TRUE)>>, symbol,
                           <<"[Errno 32] Broken pipe">>, AfterFailure(c))
       ELSE ErrorPath(<<>>, symbol, outcome.error, c)

(***************************************************************************)
(* Inputs.                                                                 *)
(***************************************************************************)
SeqsUpTo(S, n) == UNION {[1..k -> S] : k \in 0..n}

SymChars == {"a", "B"}

Symbols ==
    SeqsUpTo(SymChars, MaxSymLen) \cup {<<"a">> \o StockPrefix \o <<"b">>, StockPrefix}

Paths ==
    {StockPrefix \o s : s \in Symbols}
        \cup {<<"/">>, <<"/", "s", "t", "o", "c", "k">>,
              <<"/", "x">> \o StockPrefix \o <<"a">>, Upper(StockPrefix) \o <<"a">>}

Closes == {Null, Num(105256), Num(100015)}
Volumes == {Null, Num(0), Num(7)}

(* Every combination of present, absent and null metadata fields. *)
Metas ==
    [chartPreviousClose : {Absent, Null, Num(0), Num(100000), Num(100004)},
     regularMarketPrice : {Absent, Num(50125)},
     regularMarketVolume : {Absent, Null, Num(9)},
     regularMarketOpen : {Absent, Null, Num(101005)},
     regularMarketDayHigh : {Absent, Num(106000)},
     regularMarketDayLow : {Absent, Num(99500)},
     marketState : {Absent, Str("CLOSED")}]

(* Metadata that varies only regularMarketVolume, the one field whose use   *)
(* depends on the samples' volumes; the other fallbacks are exercised by   *)
(* the core series below.                                                  *)
CoreMetas ==
    {m \in Metas : /\ m.chartPreviousClose = Num(100000)
                   /\ m.regularMarketPrice = Num(50125)
                   /\ m.regularMarketOpen = Num(101005)
                   /\ m.regularMarketDayHigh = Num(106000)
                   /\ m.regularMarketDayLow = Num(99500)
                   /\ m.marketState = Str("CLOSED")}

TimestampList(k) == [tag |-> "list", items |-> [i \in 1..k |-> 60 * i]]

(* Every series of up to MaxSamples entries, the three arrays of any lengths. *)
AllSeries ==
    [timestamp : {TimestampList(k) : k \in 0..MaxSamples},
     close : SeqsUpTo(Closes, MaxSamples),
     volume : SeqsUpTo(Volumes, MaxSamples)]

CoreSeries ==
    {[timestamp |-> Absent, close |-> <<>>, volume |-> <<>>],
     [timestamp |-> TimestampList(0), close |-> <<>>, volume |-> <<>>],
     [timestamp |-> TimestampList(1), close |-> <<Num(105256)>>, volume |-> <<Num(7)>>],
     [timestamp |-> TimestampList(1), close |-> <<Num(100015)>>, volume |-> <<Null>>]}

(* chart.result[0]: meta, indicators.quote[0].{close, volume}, timestamp. *)
Result(m, sr) ==
    [meta |-> m,
     indicators |-> [quote |-> <<[close |-> sr.close, volume |-> sr.volume]>>],
     timestamp |-> sr.timestamp]

(* The payloads vary the metadata in full over the core series, and the    *)
(* series in full over the core metadata.                                  *)
Results ==
    {Result(m, sr) : m \in Metas, sr \in CoreSeries}
        \cup {Result(m, sr) : m \in CoreMetas, sr \in AllSeries}

ResultList(items) == [tag |-> "list", items |-> items]
Chart(result) == [tag |-> "obj", result |-> result]

Datas ==
    {[chart |-> Absent], [chart |-> Null], [chart |-> Chart(Absent)],
     [chart |-> Chart(Null)], [chart |-> Chart(ResultList(<<>>))]}
        \cup {[chart |-> Chart(ResultList(<<r>>))] : r \in Results}

Upstreams ==
    {[kind |-> "urlerror"], [kind |-> "decodeerror"]}
        \cup {[kind |-> "json", data |-> d] : d \in Datas}

NoFetch == [kind |-> "none"]

Conns == {"ok", "fail_once", "break"}

(***************************************************************************)
(* The server: one request at a time, a fresh handler per request.         *)
(***************************************************************************)
Init ==
    /\ pc = "listening"
    /\ method = "none"
    /\ path = <<>>
    /\ upstream = NoFetch
    /\ conn = "ok"
    /\ sent = <<>>
    /\ body = <<>>
    /\ fetches = 0
    /\ raised = FALSE

Respond(m, p, u, c, n, out) ==
    /\ pc' = "responded"
    /\ method' = m
    /\ path' = p
    /\ upstream' = u
    /\ conn' = c
    /\ fetches' = n
    /\ sent' = out.sent
    /\ body' = out.body
    /\ raised' = out.raised

(* lines 13-95 *)
do_GET ==
    /\ pc = "listening"
    /\ \E p \in Paths :
         IF StartsWith(p, StockPrefix)
         THEN \E u \in Upstreams, c \in Conns :
                 Respond("GET", p, u, c, 1, StockRoute(p, u, c))
         ELSE Respond("GET", p, NoFetch, "ok", 0, NotFound)

(* lines 97-102 *)
do_OPTIONS ==
    /\ pc = "listening"
    /\ \E p \in Paths : Respond("OPTIONS", p, NoFetch, "ok", 0, Preflight)

(* lines 109-114: serve_forever takes the next request. *)
serve_forever ==
    /\ pc = "responded"
    /\ pc' = "listening"
    /\ method' = "none"
    /\ path' = <<>>
    /\ upstream' = NoFetch
    /\ conn' = "ok"
    /\ sent' = <<>>
    /\ body' = <<>>
    /\ fetches' = 0
    /\ raised' = FALSE

Next == do_GET \/ do_OPTIONS \/ serve_forever

Spec == Init /\ [][Next]_vars

(***************************************************************************)
(* Vocabulary of the properties, stated on the request, the upstream       *)
(* answer and the response alone.                                          *)
(***************************************************************************)
Responded == pc = "responded"

HasStockPrefix(p) ==
    /\ Len(p) >= 7
    /\ p[1] = "/" /\ p[2] = "s" /\ p[3] = "t" /\ p[4] = "o" /\ p[5] = "c" /\ p[6] = "k"
    /\ p[7] = "/"

StockRequest == Responded /\ method = "GET" /\ HasStockPrefix(path)

Statuses == [i \in 1..Len(sent) |-> sent[i].status]

QuoteFields ==
    {"symbol", "price", "change", "changePercent", "open", "high", "low",
     "previousClose", "volume", "timestamp", "marketState"}

ErrorFields == {"error", "symbol", "message"}

(* The request was answered 200 with a quote as its body. *)
QuoteEmitted ==
    /\ StockRequest
    /\ Statuses = <<200>>
    /\ Len(body) = 1
    /\ DOMAIN body[1] = QuoteFields

NoResultEntry ==
    /\ upstream.kind = "json"
    /\ \/ upstream.data.chart \in {Absent, Null}
       \/ upstream.data.chart.result \in {Absent, Null}
       \/ upstream.data.chart.result.items = <<>>

HasEntry == upstream.kind = "json" /\ ~NoResultEntry

Entry == upstream.data.chart.result.items[1]
EntryMeta == Entry.meta
EntryCloses == Entry.indicators.quote[1].close
EntryVolumes == Entry.indicators.quote[1].volume

(* y is x rounded to 2 decimals (thousandths to a multiple of 10, ties to even). *)
IsRounded(y, x) ==
    /\ y % 10 = 0
    /\ y - x \in -5..5
    /\ (y - x \in {-5, 5} => (y \div 10) % 2 = 0)

MaxOf(S) == CHOOSE i \in S : \A j \in S : j <= i

(* The positions, within the first n entries, whose close is non-null. *)
NonNullCloses(n) == {i \in 1..n : i <= Len(EntryCloses) /\ EntryCloses[i] # Null}

(* The length zip() cuts the three arrays to. *)
CommonLen ==
    IF Entry.timestamp = Absent THEN 0
    ELSE Min(Len(Entry.timestamp.items), Min(Len(EntryCloses), Len(EntryVolumes)))

HasHeader(h, name, value) == \E j \in 1..Len(h.headers) : h.headers[j] = <<name, value>>

(***************************************************************************)
(* C1: on the quote route, every failure of the fetch, the decoding, the   *)
(* validation, a required metadata field or a derivation step is answered  *)
(* 500 with an ErrorRecord {error, symbol, message = 'Failed to fetch data *)
(* for ' + symbol}; a 200 is sent only when no such failure occurred, and  *)
(* every body written is a complete CanonicalQuote or an ErrorRecord.      *)
(***************************************************************************)
C1_ClaimedFailure ==
    \/ upstream.kind \in {"urlerror", "decodeerror"}
    \/ NoResultEntry
    \/ /\ HasEntry
       /\ \/ EntryMeta.chartPreviousClose \in {Absent, Null, Num(0)}
          \/ EntryMeta.regularMarketDayHigh = Absent
          \/ EntryMeta.regularMarketDayLow = Absent
          \/ EntryMeta.regularMarketOpen = Null
          \/ Entry.timestamp = Absent

C1_FailureIs500 ==
    /\ StockRequest /\ C1_ClaimedFailure =>
         /\ Statuses = <<500>>
         /\ HasHeader(sent[1], "Content-type", "application/json")
         /\ HasHeader(sent[1], "Access-Control-Allow-Origin", "*")
         /\ conn = "ok" =>
              /\ Len(body) = 1
              /\ DOMAIN body[1] = ErrorFields
              /\ body[1].message = <<"Failed to fetch data for ">> \o body[1].symbol
         /\ conn # "ok" => body = <<>>
    /\ StockRequest /\ (\E i \in 1..Len(sent) : sent[i].status = 200) =>
         /\ ~C1_ClaimedFailure
         /\ sent[1].status = 200
         /\ conn = "ok" => QuoteEmitted
    /\ Responded => \A i \in 1..Len(body) : DOMAIN body[i] \in {QuoteFields, ErrorFields}

C1_Witness ==
    /\ StockRequest
    /\ HasEntry
    /\ EntryMeta.regularMarketDayHigh = Absent
    /\ EntryMeta.chartPreviousClose = Num(100000)
    /\ conn = "ok"
    /\ Statuses = <<500>>
    /\ Len(body) = 1
    /\ DOMAIN body[1] = ErrorFields

(***************************************************************************)
(* C3: a GET is answered 404 exactly when its path does not start with     *)
(* '/stock/'; the 404 has no header of the handler's, no body, and is      *)
(* produced without an upstream fetch.                                     *)
(***************************************************************************)
C3_NotFoundExactlyOffRoute ==
    Responded /\ method = "GET" =>
        /\ (\E i \in 1..Len(sent) : sent[i].status = 404) <=> ~HasStockPrefix(path)
        /\ ~HasStockPrefix(path) =>
             /\ Statuses = <<404>>
             /\ sent[1].headers = <<>>
             /\ sent[1].ended
             /\ body = <<>>
             /\ fetches = 0
             /\ upstream = NoFetch

C3_Witness ==
    /\ Responded
    /\ method = "GET"
    /\ path = <<"/", "x", "/", "s", "t", "o", "c", "k", "/", "a">>
    /\ Statuses = <<404>>
    /\ body = <<>>

(***************************************************************************)
(* C4: OPTIONS on any path is answered 200 with the three cross-origin     *)
(* headers and no body, without an upstream fetch.                         *)
(***************************************************************************)
C4_Preflight ==
    Responded /\ method = "OPTIONS" =>
        /\ Statuses = <<200>>
        /\ Len(sent[1].headers) = 3
        /\ HasHeader(sent[1], "Access-Control-Allow-Origin", "*")
        /\ HasHeader(sent[1], "Access-Control-Allow-Methods", "GET, OPTIONS")
        /\ HasHeader(sent[1], "Access-Control-Allow-Headers", "Content-Type")
        /\ sent[1].ended
        /\ body = <<>>
        /\ fetches = 0
        /\ upstream = NoFetch

C4_Witness ==
    /\ Responded
    /\ method = "OPTIONS"
    /\ HasStockPrefix(path)
    /\ Statuses = <<200>>
    /\ body = <<>>
    /\ fetches = 0

(***************************************************************************)
(* C2: the symbol of a 200 response is everything after the '/stock/'      *)
(* prefix of the path, upper-cased.                                        *)
(***************************************************************************)
AfterPrefix(p) == SubSeq(p, 8, Len(p))

C2_SymbolIsRestUpper ==
    QuoteEmitted => body[1].symbol = Upper(AfterPrefix(path))

(***************************************************************************)
(* C5 as stated: whenever the close series holds a non-null close, the     *)
(* reported price is the last non-null close of the whole series, whatever *)
(* the lengths of the timestamp and volume arrays.                         *)
(***************************************************************************)
C5_LastOfWholeSeries ==
    QuoteEmitted /\ NonNullCloses(Len(EntryCloses)) # {} =>
        IsRounded(body[1].price, EntryCloses[MaxOf(NonNullCloses(Len(EntryCloses)))].num)

(***************************************************************************)
(* C5 amended: the latest sample is the last one with a non-null close     *)
(* among the samples zip() pairs up, that is within the common length of   *)
(* the three arrays; it is the last non-null close of the whole series     *)
(* when the timestamp and volume arrays are at least as long as the close  *)
(* array.  With no such sample, price and volume fall back to              *)
(* regularMarketPrice and regularMarketVolume (0 if absent).               *)
(***************************************************************************)
C5_LastOfZippedSamples ==
    QuoteEmitted =>
        LET valid == NonNullCloses(CommonLen)
        IN /\ valid # {} => IsRounded(body[1].price, EntryCloses[MaxOf(valid)].num)
           /\ CommonLen = Len(EntryCloses) /\ NonNullCloses(Len(EntryCloses)) # {} =>
                IsRounded(body[1].price,
                          EntryCloses[MaxOf(NonNullCloses(Len(EntryCloses)))].num)
           /\ valid = {} =>
                /\ EntryMeta.regularMarketPrice # Absent
                /\ IsRounded(body[1].price, EntryMeta.regularMarketPrice.num)
                /\ body[1].volume = IF EntryMeta.regularMarketVolume = Absent
                                    THEN Num(0)
                                    ELSE EntryMeta.regularMarketVolume

(* Ragged arrays: the close series is longer than the timestamps. *)
C5_Witness ==
    /\ QuoteEmitted
    /\ EntryCloses = <<Num(100015), Num(105256)>>
    /\ Len(Entry.timestamp.items) = 1
    /\ body[1].price = 100020

(* The fallback: an all-null close series. *)
C5_FallbackReached ==
    /\ QuoteEmitted
    /\ EntryCloses = <<Null, Null>>
    /\ body[1].price = 50120
    /\ body[1].volume = Num(9)

(***************************************************************************)
(* C6: when every other step succeeds the response is 200, and open is     *)
(* regularMarketOpen (rounded) if the field is present, else the price.    *)
(***************************************************************************)
C6_OthersSucceed ==
    /\ StockRequest
    /\ conn = "ok"
    /\ HasEntry
    /\ Entry.timestamp # Absent
    /\ NonNullCloses(CommonLen) = {} => EntryMeta.regularMarketPrice \notin {Absent, Null}
    /\ EntryMeta.chartPreviousClose \notin {Absent, Null, Num(0)}
    /\ EntryMeta.regularMarketDayHigh \notin {Absent, Null}
    /\ EntryMeta.regularMarketDayLow \notin {Absent, Null}

C6_OpenNeverFails ==
    C6_OthersSucceed =>
        /\ QuoteEmitted
        /\ IF EntryMeta.regularMarketOpen = Absent
           THEN body[1].open = body[1].price
           ELSE IsRounded(body[1].open, EntryMeta.regularMarketOpen.num)

(***************************************************************************)
(* C7 as stated: on the rounded output fields, change = price -            *)
(* previousClose.                                                          *)
(***************************************************************************)
C7_ChangeOfRoundedFields ==
    QuoteEmitted => body[1].change = body[1].price - body[1].previousClose

(***************************************************************************)
(* C7 amended: change is the unrounded latest price minus the unrounded    *)
(* previous close, rounded to 2 decimals; it is within 0.01 of price -     *)
(* previousClose, and equal to it when the previous close has at most two  *)
(* decimals and the latest price is not halfway between two hundredths     *)
(* (100.00 and 105.256 give price 105.26 and change 5.26).                 *)
(***************************************************************************)
LatestClose ==
    IF NonNullCloses(CommonLen) # {}
    THEN EntryCloses[MaxOf(NonNullCloses(CommonLen))].num
    ELSE EntryMeta.regularMarketPrice.num

C7_ChangeOfUnrounded ==
    QuoteEmitted =>
        LET prev == EntryMeta.chartPreviousClose.num
            q == body[1]
        IN /\ IsRounded(q.change, LatestClose - prev)
           /\ q.change - (q.price - q.previousClose) \in {-10, 0, 10}
           /\ prev % 10 = 0 /\ LatestClose % 10 # 5 =>
                q.change = q.price - q.previousClose
           /\ prev = 100000 /\ LatestClose = 105256 =>
                q.price = 105260 /\ q.change = 5260 /\ q.changePercent = 5260

C7_Witness ==
    /\ QuoteEmitted
    /\ EntryMeta.chartPreviousClose = Num(100004)
    /\ LatestClose = 105256
    /\ body[1].price = 105260
    /\ body[1].previousClose = 100000
    /\ body[1].change = 5250

(***************************************************************************)
(* C8: exactly one status line is sent per GET, and no 500 follows a 200.  *)
(***************************************************************************)
C8_OneStatusLine ==
    Responded /\ method = "GET" =>
        /\ Len(sent) = 1
        /\ sent[1].status \in {200, 500, 404}
        /\ ~\E i, j \in 1..Len(sent) : i < j /\ sent[i].status = 200 /\ sent[j].status = 500

(***************************************************************************)
(* C9: the volume of a 200 response is never null: it is the sample volume *)
(* if truthy, else regularMarketVolume, else 0.                            *)
(***************************************************************************)
C9_VolumeNeverNull ==
    QuoteEmitted =>
        LET valid == NonNullCloses(CommonLen)
            sample == IF valid # {} THEN EntryVolumes[MaxOf(valid)]
                      ELSE EntryMeta.regularMarketVolume
            metaVolume == EntryMeta.regularMarketVolume
            expected == IF sample.tag = "num" /\ sample.num # 0 THEN sample
                        ELSE IF metaVolume \notin {Absent, Null} THEN metaVolume
                        ELSE Num(0)
        IN /\ body[1].volume = expected
           /\ body[1].volume # Null

(***************************************************************************)
(* C10: a decoded payload with no result entry is answered 500 with the    *)
(* error 'Invalid data format'.                                            *)
(***************************************************************************)
C10_InvalidDataFormat ==
    StockRequest /\ NoResultEntry /\ conn = "ok" =>
        /\ Statuses = <<500>>
        /\ Len(body) = 1
        /\ body[1].error = <<"Invalid data format">>

====
